---- MODULE Spec2Model ----
(***************************************************************************)
(* R1CS NARK (index / prove / verify) over Pedersen vector commitments     *)
(* with a Fiat-Shamir challenge, and the accumulation-scheme interface     *)
(* built on it (src/src/bd_as).                                            *)
(*                                                                         *)
(* The scalar field is the prime field F_P and the commitment group G is   *)
(* the cyclic group of order P written additively (Z_P), so that           *)
(* ScalarField is the scalar field of G as for an AffineCurve.  Options    *)
(* are sequences: <<>> is None and <<v>> is Some(v).                       *)
(***************************************************************************)
EXTENDS Integers, Sequences, FiniteSets, TLC

\* ------------------------------------------------------------------ field
\* order of G::ScalarField and of the group G
P == 11

F == 0 .. (P - 1)

FAdd(a, b) == (a + b) % P
FSub(a, b) == (a - b + P) % P
FMul(a, b) == (a * b) % P
FSquare(a) == (a * a) % P

\* group G: addition and scalar multiplication of (affine / projective) points
GZero == 0
GAdd(g, h) == (g + h) % P
GMul(g, s) == (g * s) % P

None == <<>>
Some(v) == <<v>>
IsSome(o) == o # <<>>
Unwrap(o) == o[1]

Min2(a, b) == IF a < b THEN a ELSE b

\* ------------------------------------------------------- sparse matrices
\* A matrix is a sequence of rows; a row is a sequence of <<coeff, column>>
\* pairs, the column counted from 0 over the combined (input || witness)
\* index space.

\* inner_prod reads witness[i - input.len()] out of bounds (a Rust panic)
RowPanics(row, input, witness) ==
    \E k \in 1 .. Len(row) :
        /\ ~(row[k][2] < Len(input))
        /\ ~(row[k][2] - Len(input) < Len(witness))

RECURSIVE InnerProdFrom(_, _, _, _, _)
InnerProdFrom(row, input, witness, k, acc) ==
    IF k > Len(row) THEN acc
    ELSE LET coeff == row[k][1]
             i     == row[k][2]
             tmp   == IF i < Len(input) THEN input[i + 1]
                      ELSE witness[i - Len(input) + 1]
         IN InnerProdFrom(row, input, witness, k + 1,
                FAdd(acc, IF coeff = 1 THEN tmp ELSE FMul(tmp, coeff)))

\* a variant of inner_prod that reads every instance variable as zero
InnerProdNoInput(row, input, witness) ==
    InnerProdFrom(row, [j \in 1 .. Len(input) |-> 0], witness, 1, 0)

InnerProd(row, input, witness) == InnerProdFrom(row, input, witness, 1, 0)

MatrixVecMulPanics(matrix, input, witness) ==
    \E j \in 1 .. Len(matrix) : RowPanics(matrix[j], input, witness)

MatrixVecMul(matrix, input, witness) ==
    [j \in 1 .. Len(matrix) |-> InnerProd(matrix[j], input, witness)]

\* elementwise product of two vectors, cut to the shorter one (zip)
Hadamard(u, v) == [j \in 1 .. Min2(Len(u), Len(v)) |-> FMul(u[j], v[j])]

\* ------------------------------------------------ Pedersen commitments
\* A committer key is [generators |-> <<g_1 .. g_n>>, hiding_generator |-> h],
\* all generators of G (non-identity elements of Z_P).
RECURSIVE MSMFrom(_, _, _, _)
MSMFrom(gens, elems, k, acc) ==
    IF k > Min2(Len(gens), Len(elems)) THEN acc
    ELSE MSMFrom(gens, elems, k + 1, GAdd(acc, GMul(gens[k], elems[k])))

Commit(ck, elems, randomizer) ==
    LET comm == MSMFrom(ck.generators, elems, 1, GZero)
    IN IF IsSome(randomizer)
       THEN GAdd(comm, GMul(ck.hiding_generator, Unwrap(randomizer)))
       ELSE comm

\* the keys PedersenCommitment::setup / trim may hand out for n generators
CommitterKeys(n) ==
    IF n = 1
    THEN { [generators |-> <<1>>, hiding_generator |-> 2],
           [generators |-> <<3>>, hiding_generator |-> 7] }
    ELSE { [generators |-> <<1, 5>>, hiding_generator |-> 2],
           [generators |-> <<4, 9>>, hiding_generator |-> 6] }

\* ---------------------------------------------------------------- sponge
\* A sponge is its state, a number; absorbing a byte mixes it in and
\* squeezing reads the state.
SpongeNew == 0

AbsorbByte(s, b) == (s * 31 + b + 1) % 1009

RECURSIVE AbsorbFrom(_, _, _)
AbsorbFrom(s, bytes, k) ==
    IF k > Len(bytes) THEN s ELSE AbsorbFrom(AbsorbByte(s, bytes[k]), bytes, k + 1)

Absorb(s, bytes) == AbsorbFrom(s, bytes, 1)

CHALLENGE_SIZE == 128

\* one field element from the low CHALLENGE_SIZE bits of the squeezed state
\* (the state has fewer than 10 bits, so the truncation keeps all of it)
SqueezeTruncated(s, bits) == (IF bits >= 10 THEN s ELSE s % (2 ^ bits)) % P

\* into_repr().to_bytes_le() of a field element
ToBytesLE(x) == <<x % 256, (x \div 256) % 256>>

RECURSIVE FlatBytesFrom(_, _)
FlatBytesFrom(xs, k) ==
    IF k > Len(xs) THEN <<>> ELSE ToBytesLE(xs[k]) \o FlatBytesFrom(xs, k + 1)

\* to_sponge_bytes of the first-round message: its fields in declaration
\* order, the option as a presence byte followed by its content
RandomnessBytes(r) ==
    <<r.comm_r_a, r.comm_r_b, r.comm_r_c, r.comm_1, r.comm_2>>

FirstMsgBytes(msg) ==
    <<msg.comm_a, msg.comm_b, msg.comm_c>>
        \o (IF IsSome(msg.randomness)
            THEN <<1>> \o RandomnessBytes(Unwrap(msg.randomness))
            ELSE <<0>>)

ComputeChallenge(matrices_hash, input, msg, sponge) ==
    LET s1 == Absorb(sponge, ToBytesLE(matrices_hash))
        input_bytes == FlatBytesFrom(input, 1)
        s2 == Absorb(Absorb(s1, input_bytes), FirstMsgBytes(msg))
    IN SqueezeTruncated(s2, CHALLENGE_SIZE)

\* ------------------------------------------------------------ hash_matrices
PROTOCOL_NAME == <<82, 49, 67, 83, 45, 78, 65, 82, 75, 45, 50, 48, 50, 48>>

RECURSIVE SerializeRow(_, _)
SerializeRow(row, k) ==
    IF k > Len(row) THEN <<>> ELSE <<row[k][1], row[k][2]>> \o SerializeRow(row, k + 1)

RECURSIVE SerializeMatrix(_, _)
SerializeMatrix(m, j) ==
    IF j > Len(m) THEN <<>>
    ELSE <<Len(m[j])>> \o SerializeRow(m[j], 1) \o SerializeMatrix(m, j + 1)

HashMatrices(domain_separator, a, b, c) ==
    Absorb(7, domain_separator
                \o <<Len(a)>> \o SerializeMatrix(a, 1)
                \o <<Len(b)>> \o SerializeMatrix(b, 1)
                \o <<Len(c)>> \o SerializeMatrix(c, 1))

\* ------------------------------------------------- constraint synthesizers
\* The circuits handed to index and prove.  Each yields its matrices (setup
\* mode) and its counts.
\*   Square : instance (1, x), witness (y),  x * x = y
\*   Sqrt   : instance (1, x), witness (w),  w * w = x
\*   Unused : instance (1, x), witness (u),  x * 1 = x   (u in no constraint)
\*   Two    : instance (1, x), witness (y),  x * x = y  and  (2y) * 1 = y + y
Circuits ==
    { [name |-> "Square",
       a |-> << << <<1, 1>> >> >>, b |-> << << <<1, 1>> >> >>, c |-> << << <<1, 2>> >> >>,
       num_instance_variables |-> 2, num_witness_variables |-> 1, num_constraints |-> 1],
      [name |-> "Sqrt",
       a |-> << << <<1, 2>> >> >>, b |-> << << <<1, 2>> >> >>, c |-> << << <<1, 1>> >> >>,
       num_instance_variables |-> 2, num_witness_variables |-> 1, num_constraints |-> 1],
      [name |-> "Unused",
       a |-> << << <<1, 1>> >> >>, b |-> << << <<1, 0>> >> >>, c |-> << << <<1, 1>> >> >>,
       num_instance_variables |-> 2, num_witness_variables |-> 1, num_constraints |-> 1],
      [name |-> "Two",
       a |-> << << <<1, 1>> >>, << <<2, 2>> >> >>,
       b |-> << << <<1, 1>> >>, << <<1, 0>> >> >>,
       c |-> << << <<1, 2>> >>, << <<1, 2>>, <<1, 2>> >> >>,
       num_instance_variables |-> 2, num_witness_variables |-> 1, num_constraints |-> 2] }

\* What a synthesizer yields in prove mode: the instance assignment (the
\* constant 1 first), the witness assignment and its constraint count.  The
\* last one is the square circuit with y made public (no witness).
Assignments ==
    { [input |-> <<1, 3>>, witness |-> <<9>>, num_constraints |-> 1],
      [input |-> <<1, 4>>, witness |-> <<2>>, num_constraints |-> 1],
      [input |-> <<1, 4>>, witness |-> <<9>>, num_constraints |-> 1],
      [input |-> <<1, 3>>, witness |-> <<9>>, num_constraints |-> 2],
      [input |-> <<1, 3, 9>>, witness |-> <<>>, num_constraints |-> 1] }

\* (A z) o (B z) = C z for z = (input, witness), when z fits the matrices
Satisfies(key, input, witness) ==
    /\ ~MatrixVecMulPanics(key.a, input, witness)
    /\ ~MatrixVecMulPanics(key.b, input, witness)
    /\ ~MatrixVecMulPanics(key.c, input, witness)
    /\ Hadamard(MatrixVecMul(key.a, input, witness), MatrixVecMul(key.b, input, witness))
         = MatrixVecMul(key.c, input, witness)

\* -------------------------------------------------------------------- index
NoKey == <<>>

\* R1CSNark::index: the prover key, which is the verifier key too
IndexOut(circuit, ck) ==
    LET num_variables == circuit.num_instance_variables + circuit.num_witness_variables
    IN [index_info |->
            [num_variables |-> num_variables,
             num_constraints |-> circuit.num_constraints,
             num_instance_variables |-> circuit.num_instance_variables,
             matrices_hash |-> HashMatrices(PROTOCOL_NAME, circuit.a, circuit.b, circuit.c)],
        a |-> circuit.a, b |-> circuit.b, c |-> circuit.c, ck |-> ck]

\* -------------------------------------------------------------------- prove
\* the scalars the randomness source may return: zero, and a scalar at which
\* blinders of the square relation can cancel a changed input
RandSet == {0, 4}

\* number of scalars a zero-knowledge prove draws: r, then
\* a/b/c_blinder, r_a/r_b/r_c_blinder, blinder_1, blinder_2
NumDraws(num_witness_variables) == num_witness_variables + 8

Tapes(n) == [1 .. n -> RandSet]

NoProof == <<>>

\* a variant of the blinding that leaves the witness as it is
BlindWitnessOff(witness, gamma, r) == witness

\* witness + gamma * r, elementwise (zip: cut to the shorter)
BlindWitness(witness, gamma, r) ==
    [j \in 1 .. Len(witness) |->
        IF j <= Len(r) THEN FAdd(witness[j], FMul(gamma, r[j])) ELSE witness[j]]

\* z_a o r_b + z_b o r_a
CrossProduct(z_a, z_b, r_a, r_b) ==
    [j \in 1 .. Min2(Min2(Len(z_a), Len(r_b)), Min2(Len(z_b), Len(r_a))) |->
        FAdd(FMul(z_a[j], r_b[j]), FMul(z_b[j], r_a[j]))]

\* a variant of sigma_o with gamma in place of gamma^2
SigmaOLinear(c_blinder, blinder_1, blinder_2, gamma) ==
    FAdd(FAdd(c_blinder, FMul(gamma, blinder_1)), FMul(gamma, blinder_2))

SigmaO(c_blinder, blinder_1, blinder_2, gamma) ==
    FAdd(FAdd(c_blinder, FMul(gamma, blinder_1)), FMul(FSquare(gamma), blinder_2))

Zeros(n) == [j \in 1 .. n |-> 0]

\* the challenge prove derives: from the key's hash, the synthesized input,
\* the first message and the caller's sponge (a fresh one if none)
ProveChallenge(ipk, input, first_msg, sponge) ==
    ComputeChallenge(ipk.index_info.matrices_hash, input, first_msg,
                     IF IsSome(sponge) THEN Unwrap(sponge) ELSE SpongeNew)

\* the proof of a zero-knowledge prove that drew `tape` from the rng
ProveZK(ipk, input, witness, sponge, tape) ==
    LET nw == Len(witness)
        r == [j \in 1 .. nw |-> tape[j]]
        z_a == MatrixVecMul(ipk.a, input, witness)
        z_b == MatrixVecMul(ipk.b, input, witness)
        z_c == MatrixVecMul(ipk.c, input, witness)
        zeros == Zeros(Len(input))
        r_a == MatrixVecMul(ipk.a, zeros, r)
        r_b == MatrixVecMul(ipk.b, zeros, r)
        r_c == MatrixVecMul(ipk.c, zeros, r)
        a_blinder == tape[nw + 1]
        b_blinder == tape[nw + 2]
        c_blinder == tape[nw + 3]
        r_a_blinder == tape[nw + 4]
        r_b_blinder == tape[nw + 5]
        r_c_blinder == tape[nw + 6]
        blinder_1 == tape[nw + 7]
        blinder_2 == tape[nw + 8]
        first_msg ==
            [comm_a |-> Commit(ipk.ck, z_a, Some(a_blinder)),
             comm_b |-> Commit(ipk.ck, z_b, Some(b_blinder)),
             comm_c |-> Commit(ipk.ck, z_c, Some(c_blinder)),
             randomness |-> Some(
                [comm_r_a |-> Commit(ipk.ck, r_a, Some(r_a_blinder)),
                 comm_r_b |-> Commit(ipk.ck, r_b, Some(r_b_blinder)),
                 comm_r_c |-> Commit(ipk.ck, r_c, Some(r_c_blinder)),
                 comm_1 |-> Commit(ipk.ck, CrossProduct(z_a, z_b, r_a, r_b), Some(blinder_1)),
                 comm_2 |-> Commit(ipk.ck, Hadamard(r_a, r_b), Some(blinder_2))])]
        gamma == ProveChallenge(ipk, input, first_msg, sponge)
    IN [first_msg |-> first_msg,
        second_msg |->
            [blinded_witness |-> BlindWitness(witness, gamma, r),
             randomness |-> Some(
                [sigma_a |-> FAdd(a_blinder, FMul(gamma, r_a_blinder)),
                 sigma_b |-> FAdd(b_blinder, FMul(gamma, r_b_blinder)),
                 sigma_c |-> FAdd(c_blinder, FMul(gamma, r_c_blinder)),
                 sigma_o |-> SigmaO(c_blinder, blinder_1, blinder_2, gamma)])]]

\* a variant of the plain proof that carries a second randomness block
ProvePlainWithSigmas(ipk, input, witness) ==
    [first_msg |->
        [comm_a |-> Commit(ipk.ck, MatrixVecMul(ipk.a, input, witness), None),
         comm_b |-> Commit(ipk.ck, MatrixVecMul(ipk.b, input, witness), None),
         comm_c |-> Commit(ipk.ck, MatrixVecMul(ipk.c, input, witness), None),
         randomness |-> None],
     second_msg |->
        [blinded_witness |-> witness,
         randomness |-> Some([sigma_a |-> 0, sigma_b |-> 0, sigma_c |-> 0, sigma_o |-> 0])]]

\* the proof of a prove without zero knowledge
ProvePlain(ipk, input, witness) ==
    [first_msg |->
        [comm_a |-> Commit(ipk.ck, MatrixVecMul(ipk.a, input, witness), None),
         comm_b |-> Commit(ipk.ck, MatrixVecMul(ipk.b, input, witness), None),
         comm_c |-> Commit(ipk.ck, MatrixVecMul(ipk.c, input, witness), None),
         randomness |-> None],
     second_msg |-> [blinded_witness |-> witness, randomness |-> None]]

\* the two assert_eq! of prove
SizesMatch(ipk, asg) ==
    /\ ipk.index_info.num_variables = Len(asg.input) + Len(asg.witness)
    /\ ipk.index_info.num_constraints = asg.num_constraints

\* a variant of prove's sampling that draws whatever make_zk is
DrawsAlways(asg, make_zk) == NumDraws(Len(asg.witness))

\* how many scalars prove takes from the rng

DrawsOf(asg, make_zk) == IF make_zk THEN NumDraws(Len(asg.witness)) ELSE 0

\* R1CSNark::prove.  rng is an option on the source's state, the number of
\* scalars it has handed out; tape holds the scalars it hands out next.
\* status: "ok" (Ok(proof)), "panic_assert" (an assert_eq! failed),
\* "panic_unwrap" (make_zk without an rng).
ProveOut(ipk, asg, make_zk, sponge, rng, tape) ==
    IF ~SizesMatch(ipk, asg)
    THEN [status |-> "panic_assert", proof |-> NoProof, gamma |-> None, rng |-> rng]
    ELSE IF make_zk /\ ~IsSome(rng)
    THEN [status |-> "panic_unwrap", proof |-> NoProof, gamma |-> None, rng |-> rng]
    ELSE LET proof == IF make_zk
                      THEN ProveZK(ipk, asg.input, asg.witness, sponge, tape)
                      ELSE ProvePlain(ipk, asg.input, asg.witness)
         IN [status |-> "ok",
             proof |-> Some(proof),
             gamma |-> Some(ProveChallenge(ipk, asg.input, proof.first_msg, sponge)),
             rng |-> IF IsSome(rng)
                     THEN Some(Unwrap(rng) + DrawsOf(asg, make_zk))
                     ELSE rng]

\* ------------------------------------------------------------------- verify
\* the challenge verify re-derives: from the key's hash, the given input,
\* the proof's first message and the caller's sponge (a fresh one if none)
\* a variant of verify's challenge that starts from a fresh sponge always
VerifyChallengeFresh(ivk, input, proof, sponge) ==
    ComputeChallenge(ivk.index_info.matrices_hash, input, proof.first_msg, SpongeNew)

VerifyChallenge(ivk, input, proof, sponge) ==
    ComputeChallenge(ivk.index_info.matrices_hash, input, proof.first_msg,
                     IF IsSome(sponge) THEN Unwrap(sponge) ELSE SpongeNew)

\* a variant of verify without its first step
FlagsUnchecked(proof) == TRUE

\* the first step of verify: the two randomness blocks are both present or
\* both absent
FlagsAgree(proof) ==
    IsSome(proof.first_msg.randomness) = IsSome(proof.second_msg.randomness)

\* comm_x (+ gamma * comm_r_x when the first message has randomness)
Combined(comm, first_msg, gamma, comm_r) ==
    IF IsSome(first_msg.randomness)
    THEN GAdd(comm, GMul(comm_r, gamma))
    ELSE comm

\* comm_c (+ gamma * comm_1 + gamma^2 * comm_2)
HadProdComm(first_msg, gamma) ==
    IF IsSome(first_msg.randomness)
    THEN GAdd(GAdd(first_msg.comm_c, GMul(Unwrap(first_msg.randomness).comm_1, gamma)),
              GMul(Unwrap(first_msg.randomness).comm_2, FSquare(gamma)))
    ELSE first_msg.comm_c

\* proof.second_msg.randomness.as_ref().map(|r| r.sigma_x)
SigmaOpt(second_msg, name) ==
    IF IsSome(second_msg.randomness)
    THEN Some(Unwrap(second_msg.randomness)[name])
    ELSE None

\* the four equalities of verify, for a proof whose products can be computed
VerifyEqualities(ivk, input, proof, gamma) ==
    LET bw == proof.second_msg.blinded_witness
        fm == proof.first_msg
        fr == IF IsSome(fm.randomness) THEN Unwrap(fm.randomness)
              ELSE [comm_r_a |-> GZero, comm_r_b |-> GZero, comm_r_c |-> GZero,
                    comm_1 |-> GZero, comm_2 |-> GZero]
        a_times_blinded_witness == MatrixVecMul(ivk.a, input, bw)
        b_times_blinded_witness == MatrixVecMul(ivk.b, input, bw)
        c_times_blinded_witness == MatrixVecMul(ivk.c, input, bw)
        had_prod == Hadamard(a_times_blinded_witness, b_times_blinded_witness)
    IN [a_equal |-> Combined(fm.comm_a, fm, gamma, fr.comm_r_a)
                      = Commit(ivk.ck, a_times_blinded_witness, SigmaOpt(proof.second_msg, "sigma_a")),
        b_equal |-> Combined(fm.comm_b, fm, gamma, fr.comm_r_b)
                      = Commit(ivk.ck, b_times_blinded_witness, SigmaOpt(proof.second_msg, "sigma_b")),
        c_equal |-> Combined(fm.comm_c, fm, gamma, fr.comm_r_c)
                      = Commit(ivk.ck, c_times_blinded_witness, SigmaOpt(proof.second_msg, "sigma_c")),
        had_prod_equal |-> HadProdComm(fm, gamma)
                      = Commit(ivk.ck, had_prod, SigmaOpt(proof.second_msg, "sigma_o"))]

\* a variant of verify's result that leaves a_equal out
AcceptsNoA(eq) == eq.b_equal /\ eq.c_equal /\ eq.had_prod_equal

\* a variant of verify's result that leaves had_prod_equal out
AcceptsNoHadProd(eq) == eq.a_equal /\ eq.b_equal /\ eq.c_equal

\* a_equal & b_equal & c_equal & had_prod_equal

Accepts(eq) == eq.a_equal /\ eq.b_equal /\ eq.c_equal /\ eq.had_prod_equal

\* R1CSNark::verify.  status: "accept" (true), "reject" (false), "panic"
\* (inner_prod indexed the blinded witness out of bounds).  challenges and
\* commits count the challenge derivations and the commitments computed.
VerifyOut(ivk, input, proof, sponge) ==
    IF ~FlagsAgree(proof)
    THEN [status |-> "reject", gamma |-> None, challenges |-> 0, commits |-> 0]
    ELSE LET gamma == VerifyChallenge(ivk, input, proof, sponge)
             bw == proof.second_msg.blinded_witness
         IN IF \/ MatrixVecMulPanics(ivk.a, input, bw)
               \/ MatrixVecMulPanics(ivk.b, input, bw)
               \/ MatrixVecMulPanics(ivk.c, input, bw)
            THEN [status |-> "panic", gamma |-> Some(gamma), challenges |-> 1, commits |-> 0]
            ELSE LET eq == VerifyEqualities(ivk, input, proof, gamma)
                 IN [status |-> IF Accepts(eq) THEN "accept" ELSE "reject",
                     gamma |-> Some(gamma), challenges |-> 1, commits |-> 4]

\* --------------------------------------------- what reaches the verifier
\* Between prove and verify the proof and the public input are in the hands
\* of the caller, who may pass them on unchanged or changed.
MaxDelta == 1
MaxLenDelta == 1

CommFields(proof) ==
    {"comm_a", "comm_b", "comm_c"}
        \cup (IF IsSome(proof.first_msg.randomness)
              THEN {"comm_r_a", "comm_r_b", "comm_r_c", "comm_1", "comm_2"}
              ELSE {})

NoChange == [kind |-> "none", field |-> "", idx |-> 0, delta |-> 0, flag |-> "keep"]

\* a single change: one coordinate of blinded_witness, one commitment, one
\* coordinate of the input, the length of blinded_witness or of the input,
\* or a different sponge
SingleChanges(proof, input) ==
    {[kind |-> "bw", field |-> "", idx |-> j, delta |-> d, flag |-> "keep"] :
        j \in 1 .. Len(proof.second_msg.blinded_witness), d \in 1 .. MaxDelta}
    \cup {[kind |-> "comm", field |-> f, idx |-> 0, delta |-> d, flag |-> "keep"] :
        f \in CommFields(proof), d \in 1 .. MaxDelta}
    \cup {[kind |-> "input", field |-> "", idx |-> j, delta |-> d, flag |-> "keep"] :
        j \in 1 .. Len(input), d \in 1 .. MaxDelta}
    \cup {[kind |-> k, field |-> "", idx |-> 0, delta |-> d, flag |-> "keep"] :
        k \in {"bwlen", "inputlen"}, d \in ((0 - MaxLenDelta) .. MaxLenDelta) \ {0}}
    \cup {[kind |-> "sponge", field |-> "", idx |-> 0, delta |-> 0, flag |-> "keep"]}

\* a change of one randomness block's presence, alone or on top of another
\* change
FlagChanges(proof, input) ==
    {[t EXCEPT !.flag = f] :
        t \in {NoChange} \cup {s \in SingleChanges(proof, input) :
                                  \/ s.kind \in {"bwlen", "inputlen"}
                                  \/ s.kind = "comm" /\ s.field = "comm_a"},
        f \in {"first", "second"}}

Changes(proof, input) ==
    {NoChange} \cup SingleChanges(proof, input) \cup FlagChanges(proof, input)

\* a sequence made longer by zeros or shorter at its end
Resize(xs, d) ==
    IF d >= 0 THEN xs \o Zeros(d)
    ELSE SubSeq(xs, 1, IF Len(xs) + d > 0 THEN Len(xs) + d ELSE 0)

ZeroFirstRandomness ==
    [comm_r_a |-> GZero, comm_r_b |-> GZero, comm_r_c |-> GZero,
     comm_1 |-> GZero, comm_2 |-> GZero]

ZeroSecondRandomness == [sigma_a |-> 0, sigma_b |-> 0, sigma_c |-> 0, sigma_o |-> 0]

Toggle(opt, zero) == IF IsSome(opt) THEN None ELSE Some(zero)

ChangedProof(proof, t) ==
    LET p1 == CASE t.kind = "bw" ->
                     [proof EXCEPT !.second_msg.blinded_witness[t.idx] = FAdd(@, t.delta)]
                [] t.kind = "bwlen" ->
                     [proof EXCEPT !.second_msg.blinded_witness = Resize(@, t.delta)]
                [] t.kind = "comm" /\ t.field \in {"comm_a", "comm_b", "comm_c"} ->
                     [proof EXCEPT !.first_msg[t.field] = GAdd(@, t.delta)]
                [] t.kind = "comm" /\ t.field \notin {"comm_a", "comm_b", "comm_c"} ->
                     [proof EXCEPT !.first_msg.randomness[1][t.field] = GAdd(@, t.delta)]
                [] OTHER -> proof
    IN CASE t.flag = "first" ->
                [p1 EXCEPT !.first_msg.randomness = Toggle(@, ZeroFirstRandomness)]
         [] t.flag = "second" ->
                [p1 EXCEPT !.second_msg.randomness = Toggle(@, ZeroSecondRandomness)]
         [] OTHER -> p1

ChangedInput(input, t) ==
    CASE t.kind = "input" -> [input EXCEPT ![t.idx] = FAdd(@, t.delta)]
      [] t.kind = "inputlen" -> Resize(input, t.delta)
      [] OTHER -> input

\* the sponges a caller may hand to prove and verify: none, or a pre-seeded one
Sponges == {None, Some(5)}

ChangedSponge(sponge, t) ==
    IF t.kind = "sponge" THEN CHOOSE s \in Sponges : s # sponge ELSE sponge

\* -------------------------------------------------------------------- state
VARIABLES
    phase,      \* "init", "indexed", "proved", "verified"
    ipk,        \* the key index returned (prover and verifier key), or NoKey
    rng,        \* the caller's randomness source: None, or Some(scalars drawn)
    asg,        \* the assignment the last prove synthesized
    make_zk,    \* the flag of the last prove
    psponge,    \* the sponge handed to the last prove
    draws,      \* the scalars the last prove drew from rng
    pstatus,    \* how the last prove ended: "none", "ok", "panic_assert", "panic_unwrap"
    proof,      \* the proof it returned, or NoProof
    pgamma,     \* the challenge it derived
    change,     \* what the caller changed before the last verify
    vout,       \* the outcome of the last verify
    as_phase,   \* accumulation scheme: "start", "setup", "indexed", "proved"
    as_depth,   \* the depth bound the scheme was configured with at indexing
    as_keys,    \* what index returned: (prover key, verifier key, decider key)
    as_call,    \* the arguments of the last accumulation prove
    as_out      \* what it returned and the commitments it computed

nvars == <<phase, ipk, rng, asg, make_zk, psponge, draws, pstatus, proof, pgamma,
           change, vout>>

asvars == <<as_phase, as_depth, as_keys, as_call, as_out>>

vars == <<nvars, asvars>>

NoAsg == [input |-> <<>>, witness |-> <<>>, num_constraints |-> 0]
NoVerify == [status |-> "none", gamma |-> None, challenges |-> 0, commits |-> 0]

\* the unit value ()
Unit == <<>>
NoCall == [inputs |-> 0, old_accumulators |-> 0, make_zk |-> FALSE, sponge |-> None]
NoOut == [result |-> "none", commits |-> 0]

ASInit ==
    /\ as_phase = "start"
    /\ as_depth = 0
    /\ as_keys = Unit
    /\ as_call = NoCall
    /\ as_out = NoOut

Init ==
    /\ ASInit
    /\ phase = "init"
    /\ ipk = NoKey
    /\ rng \in {None, Some(0)}
    /\ asg = NoAsg
    /\ make_zk = FALSE
    /\ psponge = None
    /\ draws = <<>>
    /\ pstatus = "none"
    /\ proof = NoProof
    /\ pgamma = None
    /\ change = NoChange
    /\ vout = NoVerify

Index ==
    /\ phase = "init"
    /\ \E circuit \in Circuits :
         \E ck \in CommitterKeys(circuit.num_constraints) :
            ipk' = IndexOut(circuit, ck)
    /\ phase' = "indexed"
    /\ UNCHANGED <<rng, asg, make_zk, psponge, draws, pstatus, proof, pgamma, change, vout>>
    /\ UNCHANGED asvars

Prove ==
    /\ phase = "indexed"
    /\ \E a \in Assignments, mk \in BOOLEAN, sp \in Sponges :
         \E tape \in Tapes(DrawsOf(a, mk)) :
            LET out == ProveOut(ipk, a, mk, sp, rng, tape)
            IN /\ asg' = a
               /\ make_zk' = mk
               /\ psponge' = sp
               /\ draws' = IF out.status = "ok" THEN tape ELSE <<>>
               /\ pstatus' = out.status
               /\ proof' = out.proof
               /\ pgamma' = out.gamma
               /\ rng' = out.rng
    /\ phase' = "proved"
    /\ UNCHANGED <<ipk, change, vout>>
    /\ UNCHANGED asvars

Verify ==
    /\ phase = "proved"
    /\ pstatus = "ok"
    /\ \E t \in Changes(Unwrap(proof), asg.input) :
         /\ change' = t
         /\ vout' = VerifyOut(ipk, ChangedInput(asg.input, t),
                              ChangedProof(Unwrap(proof), t), ChangedSponge(psponge, t))
    /\ phase' = "verified"
    /\ UNCHANGED <<ipk, rng, asg, make_zk, psponge, draws, pstatus, proof, pgamma>>
    /\ UNCHANGED asvars

\* the caller drops the proof and starts over with a fresh key
Reset ==
    /\ phase \in {"proved", "verified"}
    /\ phase' = "init"
    /\ ipk' = NoKey
    /\ rng' \in {None, Some(0)}
    /\ asg' = NoAsg
    /\ make_zk' = FALSE
    /\ psponge' = None
    /\ draws' = <<>>
    /\ pstatus' = "none"
    /\ proof' = NoProof
    /\ pgamma' = None
    /\ change' = NoChange
    /\ vout' = NoVerify
    /\ UNCHANGED asvars

Next == Index \/ Prove \/ Verify \/ Reset

Spec == Init /\ [][Next]_vars

\* ------------------------------------------------- accumulation scheme
MaxDepth == 3
MaxInputs == 4
MaxAccs == 1

\* BDASForR1CSNark::setup: Ok(())
ASSetup ==
    /\ as_phase = "start"
    /\ as_phase' = "setup"
    /\ UNCHANGED <<as_depth, as_keys, as_call, as_out>>
    /\ UNCHANGED nvars

\* BDASForR1CSNark::index: Ok(((), (), ())).  The caller fixes the depth
\* bound here; the parameters and the keys of the code are all the unit
\* type, so no key holds it.
ASIndexOut == <<Unit, Unit, Unit>>

\* the depth bounds a caller may fix at indexing time
DepthBounds == 0 .. MaxDepth

ASIndex ==
    /\ as_phase = "setup"
    /\ \E depth \in DepthBounds : as_depth' = depth
    /\ as_keys' = ASIndexOut
    /\ as_phase' = "indexed"
    /\ UNCHANGED <<as_call, as_out>>
    /\ UNCHANGED nvars

\* BDASForR1CSNark::prove: the body is empty; it checks nothing, computes
\* nothing and yields the unit value
ASProveOut(prover_key, inputs, old_accumulators, mk, sponge) ==
    [result |-> "unit", commits |-> 0]

ASProve ==
    /\ as_phase \in {"indexed", "proved"}
    /\ \E n \in 0 .. MaxInputs, k \in 0 .. MaxAccs, mk \in BOOLEAN, sp \in Sponges :
         /\ as_call' = [inputs |-> n, old_accumulators |-> k, make_zk |-> mk, sponge |-> sp]
         /\ as_out' = ASProveOut(as_keys[1], n, k, mk, sp)
    /\ as_phase' = "proved"
    /\ UNCHANGED <<as_depth, as_keys>>
    /\ UNCHANGED nvars

NextAS == ASSetup \/ ASIndex \/ ASProve

SpecAS == Init /\ [][NextAS]_vars

\* ===================================================================
\* Properties
\* ===================================================================
\* what the last verify was given
VInput == ChangedInput(asg.input, change)
VProof == ChangedProof(Unwrap(proof), change)
VSponge == ChangedSponge(psponge, change)

Verified == phase = "verified"

\* the last prove was honest about a satisfying assignment of the key's relation
ProvedSatisfying == pstatus = "ok" /\ Satisfies(ipk, asg.input, asg.witness)

\* C1 (completeness): when prove ran on an assignment satisfying the key's
\* relation and verify is given that proof unchanged, with the same input and
\* the same initial sponge, verify accepts; with and without zero knowledge and
\* for every scalar tape the randomness source returned.
C1_Completeness ==
    (Verified /\ change = NoChange /\ ProvedSatisfying) => vout.status = "accept"

C1_Witness ==
    /\ Verified /\ change = NoChange /\ ProvedSatisfying
    /\ make_zk /\ draws[1] # 0 /\ Unwrap(pgamma) # 0
    /\ Len(ipk.a) = 2
    /\ vout.status = "accept"

\* ---------------------------------------------------------------------
UnitVec(n, j) == [k \in 1 .. n |-> IF k = j THEN 1 ELSE 0]

\* column j of the witness part of matrix m, as the vector of its row sums
WitnessColumn(m, j) ==
    MatrixVecMul(m, Zeros(Len(asg.input)), UnitVec(Len(asg.witness), j))

HonestRandomness == Unwrap(Unwrap(proof).first_msg.randomness)

\* the (comm_x, comm_r_x) pairs a changed commitment field belongs to
PairOf(field) ==
    CASE field \in {"comm_a", "comm_r_a"} -> {"comm_r_a"}
      [] field \in {"comm_b", "comm_r_b"} -> {"comm_r_b"}
      [] field \in {"comm_c", "comm_r_c"} -> {"comm_r_c"}
      [] OTHER -> {}

SingleFieldChange == change.flag = "keep" /\ change.kind \in {"bw", "comm"}

\* C2 as stated: after an honest prove, a changed coordinate of
\* blinded_witness or a changed commitment of the first message always makes
\* verify return false.
C2_AnyChangeRejected ==
    (Verified /\ SingleFieldChange) => vout.status = "reject"

\* C2 as amended: verify returns false
\*  - for a changed coordinate j of blinded_witness, when the commitment to
\*    column j of A, of B or of C is not the identity;
\*  - for a changed commitment of a proof without zero knowledge, always;
\*  - for a changed commitment of a zero-knowledge proof, when one of
\*    comm_r_a, comm_r_b, comm_r_c outside the changed field's pair is not the
\*    identity and, for a changed comm_r_x, comm_1 or comm_2, the challenge of
\*    the honest proof is not zero.
C2_Detectable ==
    CASE change.kind = "bw" ->
            \E m \in {ipk.a, ipk.b, ipk.c} :
                Commit(ipk.ck, WitnessColumn(m, change.idx), None) # GZero
      [] change.kind = "comm" /\ ~make_zk -> TRUE
      [] change.kind = "comm" /\ make_zk ->
            /\ \E y \in {"comm_r_a", "comm_r_b", "comm_r_c"} \ PairOf(change.field) :
                  HonestRandomness[y] # GZero
            /\ \/ change.field \in {"comm_a", "comm_b", "comm_c"}
               \/ Unwrap(pgamma) # 0
      [] OTHER -> FALSE

\* C2 as amended: a single changed field that is detectable in the sense above
\* makes verify return false.
C2_DetectableChangeRejected ==
    (Verified /\ SingleFieldChange /\ C2_Detectable) => vout.status = "reject"

C2_Witness ==
    /\ Verified /\ SingleFieldChange /\ C2_Detectable
    /\ make_zk /\ change.field = "comm_1" /\ ProvedSatisfying
    /\ vout.status = "reject"

\* exactly one of the two randomness blocks of proof p is present
ExactlyOneRandomness(p) ==
    IsSome(p.first_msg.randomness) # IsSome(p.second_msg.randomness)

\* C3 (flag consistency): a proof with exactly one of the two randomness
\* blocks is rejected, whatever else it holds and whatever the input and the
\* key, and before verify derives a challenge or computes a commitment.
C3_FlagMismatchRejected ==
    (Verified /\ ExactlyOneRandomness(VProof)) =>
        /\ vout.status = "reject"
        /\ vout.gamma = None
        /\ vout.challenges = 0
        /\ vout.commits = 0

C3_Witness ==
    /\ Verified /\ ExactlyOneRandomness(VProof)
    /\ change.kind = "bwlen" /\ change.delta < 0
    /\ IsSome(VProof.first_msg.randomness)
    /\ vout.status = "reject"

\* C4 as stated: verify ends with a definite boolean for every key, input and
\* proof, whatever their lengths.
C4_VerifyTotal ==
    Verified => vout.status \in {"accept", "reject"}

\* C5: the square relation x * x = y with x = 3, y = 9
SquareCircuit == CHOOSE c \in Circuits : c.name = "Square"

Scenario ==
    /\ Verified
    /\ ipk.a = SquareCircuit.a /\ ipk.b = SquareCircuit.b /\ ipk.c = SquareCircuit.c
    /\ asg.input = <<1, 3>> /\ asg.witness = <<9>>

XTo4 == [kind |-> "input", field |-> "", idx |-> 2, delta |-> 1, flag |-> "keep"]

\* C5 as stated: the proof for input [1, 3] is accepted with input [1, 3] and
\* rejected with input [1, 4], with and without zero knowledge.
C5_ScenarioBinding ==
    Scenario =>
        /\ change = NoChange => vout.status = "accept"
        /\ change = XTo4 => vout.status = "reject"

\* the blinders of a zero-knowledge proof cancel the change of x from 3 to 4
\* in verify's a_equal: (gamma' - gamma) * comm_r_a = g_1
BlindersCancel ==
    GMul(HonestRandomness.comm_r_a, FSub(Unwrap(vout.gamma), Unwrap(pgamma)))
        = ipk.ck.generators[1]

\* C5 as amended: accepted with input [1, 3]; with input [1, 4] rejected
\* without zero knowledge, and with zero knowledge rejected whenever
\* (gamma' - gamma) * comm_r_a is not the generator g_1 (gamma' the challenge
\* verify derives for [1, 4], gamma the one prove derived): the Pedersen
\* commitment binds only as long as the blinders do not cancel the change.
C5_ScenarioBindingUnlessCancelled ==
    Scenario =>
        /\ change = NoChange => vout.status = "accept"
        /\ (change = XTo4 /\ (make_zk => ~BlindersCancel)) => vout.status = "reject"

C5_Witness ==
    /\ Scenario /\ change = XTo4 /\ make_zk
    /\ HonestRandomness.comm_r_a # GZero
    /\ Unwrap(vout.gamma) # Unwrap(pgamma)
    /\ ~BlindersCancel
    /\ vout.status = "reject"

\* C6 as stated: when the synthesized sizes (variables, constraints, instance
\* variables) disagree with the key's index info, prove returns a
\* DimensionMismatchError, no proof, and takes nothing from the rng.
SizesDisagree ==
    \/ ipk.index_info.num_variables # Len(asg.input) + Len(asg.witness)
    \/ ipk.index_info.num_constraints # asg.num_constraints
    \/ ipk.index_info.num_instance_variables # Len(asg.input)

C6_DimensionMismatchError ==
    (phase = "proved" /\ SizesDisagree) =>
        /\ pstatus = "DimensionMismatchError"
        /\ proof = NoProof
        /\ rng \in {None, Some(0)}

\* C7 as stated: an accumulation prove given more input instances than the
\* depth bound fixed at indexing fails with BoundExceededError and computes
\* no commitment.
C7_BoundExceededError ==
    (as_phase = "proved" /\ as_call.inputs > as_depth) =>
        /\ as_out.result = "BoundExceededError"
        /\ as_out.commits = 0

ProveStep == phase = "indexed" /\ phase' = "proved"
VerifyStep == phase = "proved" /\ phase' = "verified"

\* C8 (frame): a prove step without make_zk leaves the randomness source as it
\* was, and succeeds with or without one when the sizes match; only a
\* successful zero-knowledge prove takes scalars from it; neither prove nor
\* verify changes the key or, for verify, the randomness source.
C8_RandomnessOnlyForZK ==
    [][ /\ ProveStep =>
            /\ ipk' = ipk
            /\ ~make_zk' => rng' = rng
            /\ (~make_zk' /\ SizesMatch(ipk, asg')) => pstatus' = "ok"
            /\ rng' # rng => (make_zk' /\ pstatus' = "ok")
        /\ VerifyStep => (ipk' = ipk /\ rng' = rng) ]_vars

C8_Witness ==
    /\ phase = "proved" /\ pstatus = "ok" /\ ~make_zk
    /\ rng = Some(0)

\* C9: verify re-derives the challenge prove used whenever it is given the
\* same key, input, first message and initial sponge (and gets as far as
\* deriving one); neither call leaves anything behind in the caller's sponge.
SameTranscript ==
    /\ VInput = asg.input
    /\ VProof.first_msg = Unwrap(proof).first_msg
    /\ VSponge = psponge

ZKView(p) ==
    [first_msg |-> p.first_msg, blinded_witness |-> p.second_msg.blinded_witness]

\* the blinders s with commit(ck, v, s) = comm
Blinders(v, comm) == {s \in F : Commit(ipk.ck, v, Some(s)) = comm}

\* The scalar tapes over the whole field on which prove, run on witness w with
\* the key, input and sponge of the last prove, returns a proof with view o:
\* found draw by draw, in the order prove draws them.
Fiber(w, o) ==
    LET input == asg.input
        fm == o.first_msg
        fr == Unwrap(fm.randomness)
        gamma == ProveChallenge(ipk, input, fm, psponge)
        zeros == Zeros(Len(input))
        z_a == MatrixVecMul(ipk.a, input, w)
        z_b == MatrixVecMul(ipk.b, input, w)
        z_c == MatrixVecMul(ipk.c, input, w)
        Rs == {r \in [1 .. Len(w) -> F] : BlindWitness(w, gamma, r) = o.blinded_witness}
    IN UNION {
         LET r_a == MatrixVecMul(ipk.a, zeros, r)
             r_b == MatrixVecMul(ipk.b, zeros, r)
             r_c == MatrixVecMul(ipk.c, zeros, r)
         IN { [j \in 1 .. Len(w) |-> r[j]] \o <<a, b, c, ra, rb, rc, b1, b2>> :
                a \in Blinders(z_a, fm.comm_a),
                b \in Blinders(z_b, fm.comm_b),
                c \in Blinders(z_c, fm.comm_c),
                ra \in Blinders(r_a, fr.comm_r_a),
                rb \in Blinders(r_b, fr.comm_r_b),
                rc \in Blinders(r_c, fr.comm_r_c),
                b1 \in Blinders(CrossProduct(z_a, z_b, r_a, r_b), fr.comm_1),
                b2 \in Blinders(Hadamard(r_a, r_b), fr.comm_2) }
         : r \in Rs }

\* the witnesses that satisfy the key's relation with the input of the last prove
SatisfyingWitnesses ==
    {w \in [1 .. Len(asg.witness) -> F] : Satisfies(ipk, asg.input, w)}

ZKProved == phase = "proved" /\ pstatus = "ok" /\ make_zk /\ ProvedSatisfying

\* the tape the last prove drew
Drawn == [j \in 1 .. Len(draws) |-> draws[j]]

\* every tape of the set fw gives view o when prove is run on witness w
GivesView(fw, w, o) ==
    \A t \in fw : ZKView(ProveZK(ipk, asg.input, w, psponge, t)) = o

\* C10 as stated: for every view a zero-knowledge prove returned, every
\* satisfying witness yields that view on as many scalar tapes as the witness
\* that was used, so that over uniform tapes the view has the same
\* distribution for any two satisfying witnesses.  (The fibers are exact: the
\* tape prove drew is in the fiber of its view, and every tape of a fiber
\* gives the view.)
C10_SameDistribution ==
    ZKProved =>
        LET o == ZKView(Unwrap(proof))
            f0 == Fiber(asg.witness, o)
            n == Cardinality(f0)
        IN /\ Drawn \in f0
           /\ \A w \in SatisfyingWitnesses :
                 LET fw == Fiber(w, o)
                 IN GivesView(fw, w, o) /\ Cardinality(fw) = n

\* C10 as amended: the same for every view whose challenge is not zero (with
\* challenge zero the blinded witness is the witness itself).
C10_SameDistributionNonzeroChallenge ==
    ZKProved =>
        LET o == ZKView(Unwrap(proof))
            f0 == Fiber(asg.witness, o)
            n == Cardinality(f0)
        IN /\ Drawn \in f0
           /\ \A w \in SatisfyingWitnesses :
                 LET fw == Fiber(w, o)
                 IN /\ GivesView(fw, w, o)
                    /\ Unwrap(pgamma) # 0 => Cardinality(fw) = n

C10_Witness ==
    /\ ZKProved /\ Unwrap(pgamma) # 0
    /\ draws[1] # 0
    /\ ipk.a = << << <<1, 2>> >> >>
    /\ \E w \in SatisfyingWitnesses :
          /\ w # asg.witness
          /\ Cardinality(Fiber(w, ZKView(Unwrap(proof)))) = 1

\* ---------------------------------------------------------------------
\* C11: the four equalities and R1CS satisfaction.
\* the committer key is binding on vectors: no nonzero vector is committed
\* (without blinder) to the identity, so that distinct vectors of the key's
\* length have distinct commitments under the same blinder
Binding(ck) ==
    \A e \in [1 .. Len(ck.generators) -> F] :
        Commit(ck, e, None) = GZero => \A j \in 1 .. Len(ck.generators) : e[j] = 0

\* the four equalities of the last verify
LastEqualities ==
    VerifyEqualities(ipk, VInput, VProof, VerifyChallenge(ipk, VInput, VProof, VSponge))

\* the last prove was given an assignment of the key's sizes that does not
\* satisfy the relation, and a randomness source if it asked for zero knowledge
UnsatisfiedFits ==
    /\ phase \in {"proved", "verified"}
    /\ SizesMatch(ipk, asg)
    /\ ~Satisfies(ipk, asg.input, asg.witness)
    /\ make_zk => IsSome(rng)

\* C11: a verify that gets past the flag step and computes its products
\* accepts exactly when a_equal, b_equal, c_equal and had_prod_equal all hold;
\* prove returns a proof for an assignment of the right sizes that violates
\* (A z) o (B z) = C z; and under a binding committer key verify rejects that
\* proof, with and without zero knowledge.
C11_FourEqualitiesEncodeR1CS ==
    /\ (Verified /\ FlagsAgree(VProof) /\ vout.status # "panic") =>
          LET eq == LastEqualities
          IN vout.status = "accept" <=>
                (eq.a_equal /\ eq.b_equal /\ eq.c_equal /\ eq.had_prod_equal)
    /\ UnsatisfiedFits => (pstatus = "ok" /\ proof # NoProof)
    /\ (Verified /\ UnsatisfiedFits /\ change = NoChange /\ Binding(ipk.ck)) =>
          vout.status = "reject"

C11_Witness ==
    /\ Verified /\ UnsatisfiedFits /\ change = NoChange /\ Binding(ipk.ck)
    /\ make_zk /\ draws[1] # 0 /\ Unwrap(pgamma) # 0
    /\ LastEqualities.a_equal /\ LastEqualities.b_equal /\ LastEqualities.c_equal
    /\ ~LastEqualities.had_prod_equal
    /\ vout.status = "reject"

\* ---------------------------------------------------------------------
\* C12: the flags of a returned proof.
Returned == phase \in {"proved", "verified"} /\ pstatus = "ok"

\* C12: in every proof prove returned, the first and the second randomness
\* block are present exactly when make_zk was set; without make_zk the blinded
\* witness is the synthesized witness, element for element; and a verify of
\* the unchanged proof gets past the flag step (it derives its challenge).
C12_HonestFlagsConsistent ==
    Returned =>
        LET p == Unwrap(proof)
        IN /\ IsSome(p.first_msg.randomness) = make_zk
           /\ IsSome(p.second_msg.randomness) = make_zk
           /\ ~make_zk =>
                 /\ Len(p.second_msg.blinded_witness) = Len(asg.witness)
                 /\ \A j \in 1 .. Len(asg.witness) :
                       p.second_msg.blinded_witness[j] = asg.witness[j]
           /\ FlagsAgree(p)
           /\ (Verified /\ change = NoChange) =>
                 (vout.challenges = 1 /\ IsSome(vout.gamma))

C12_Witness ==
    /\ Returned /\ Verified /\ change = NoChange
    /\ ~make_zk /\ Len(asg.witness) > 0
    /\ Unwrap(proof).second_msg.blinded_witness = asg.witness
    /\ vout.challenges = 1

====
